---------------------------- MODULE Spec2Model ----------------------------
(*************************************************************************)
(* Model of src/src/App.tsx: the SalesAnalyticsDashboard component.      *)
(*                                                                       *)
(* State: the three useState cells (data, loading, error) and the parse  *)
(* that Papa.parse has in flight.  The analytics value is the useMemo    *)
(* over data: a function of data, written here as operators that follow *)
(* the reductions of the source one by one.                              *)
(*                                                                       *)
(* Encodings.                                                            *)
(*  - Amounts are integers of currency sub-units.                        *)
(*  - A record's hour is datetime.getHours(): 0..23, or NaN when the     *)
(*    datetime cell is not a date.                                       *)
(*  - A JavaScript object used as a map is the sequence of its own       *)
(*    enumerable properties in the order Object.entries lists them:      *)
(*    array-index keys ("7", "12") in increasing numeric order first,    *)
(*    then the other string keys in insertion order.  A property read    *)
(*    acc[k] also finds what every object inherits from                  *)
(*    Object.prototype ("constructor", "__proto__", ...).                *)
(*  - A percentage is kept in tenths of a percent (toFixed(1)).          *)
(*************************************************************************)
EXTENDS Integers, Sequences, FiniteSets, TLC

VARIABLES data, loading, error, parsing

vars == <<data, loading, error, parsing>>

-----------------------------------------------------------------------------
(* Values *)

\* datetime.getHours() of an Invalid Date
NaN == -1

\* error === null
null == "null"

\* no Papa.parse call is in flight
idle == [busy |-> FALSE, rows |-> <<>>]

\* A cell of the money column, by what parseFloat(String(cell)) makes of it:
\* a number n; text that parseFloat cannot read (or no cell at all), giving
\* NaN; text that starts with a number n ("3,50", "2 PLN"), giving n.
Num(n) == [num |-> TRUE, n |-> n, read |-> TRUE]
Text == [num |-> FALSE, n |-> 0, read |-> FALSE]
TextStartingWith(n) == [num |-> FALSE, n |-> n, read |-> TRUE]

\* Keys that are canonical array indices, with their numeric value.
ArrayIndexValue == ("7" :> 7) @@ ("12" :> 12)

IsArrayIndex(k) == k \in DOMAIN ArrayIndexValue

\* Names every object inherits from Object.prototype (two of them).
ObjectPrototypeKeys == {"constructor", "__proto__"}

-----------------------------------------------------------------------------
(* JavaScript objects as ordered maps.  A reduce over an array is written  *)
(* as the function f of the number of elements consumed: f[0] is the      *)
(* initial value and f[i] the callback applied to f[i - 1] and element i. *)

OwnKeys(obj) == {obj[i].key : i \in DOMAIN obj}

HasOwn(obj, k) == k \in OwnKeys(obj)

IndexOf(obj, k) == CHOOSE i \in DOMAIN obj : obj[i].key = k

Get(obj, k) == obj[IndexOf(obj, k)].val

\* acc[k] is truthy: an own property (always a truthy value in this program)
\* or a property inherited from Object.prototype (an object or a function).
Truthy(obj, k) == HasOwn(obj, k) \/ k \in ObjectPrototypeKeys

\* The place a new own property k takes in the enumeration order.
PositionFor(obj, k) ==
    IF IsArrayIndex(k)
    THEN Cardinality({i \in DOMAIN obj :
                        /\ IsArrayIndex(obj[i].key)
                        /\ ArrayIndexValue[obj[i].key] < ArrayIndexValue[k]})
    ELSE Len(obj)

\* acc[k] = v
SetProperty(obj, k, v) ==
    IF HasOwn(obj, k)
    THEN [obj EXCEPT ![IndexOf(obj, k)].val = v]
    ELSE LET p == PositionFor(obj, k)
         IN  SubSeq(obj, 1, p) \o <<[key |-> k, val |-> v]>>
                 \o SubSeq(obj, p + 1, Len(obj))


-----------------------------------------------------------------------------
(* analytics: the useMemo over data (average price, average order value   *)
(* and the price/volume pairs are divisions shown to the user and are     *)
(* not modelled)                                                          *)

\* Mutant: the sum taken from the second record on.
totalRevenue_afterFirst(d) ==
    LET sum[i \in 0..Len(d)] == IF i <= 1 THEN 0 ELSE sum[i - 1] + d[i].money
    IN  sum[Len(d)]

totalRevenue(d) ==
    LET sum[i \in 0..Len(d)] == IF i = 0 THEN 0 ELSE sum[i - 1] + d[i].money
    IN  sum[Len(d)]

totalOrders(d) == Len(d)

uniqueCustomers(d) == Cardinality({d[i].card : i \in DOMAIN d})

\* One step of a grouping reduction keyed by k (coffeeStats, paymentStats).
\* When acc[k] is found on Object.prototype no own property is created and
\* the two += land on the inherited object, not on acc.
GroupStep(acc, k, money) ==
    LET created == IF ~Truthy(acc, k)
                   THEN SetProperty(acc, k, [count |-> 0, revenue |-> 0])
                   ELSE acc
    IN  IF HasOwn(created, k)
        THEN SetProperty(created, k,
                 [count   |-> Get(created, k).count + 1,
                  revenue |-> Get(created, k).revenue + money])
        ELSE created

coffeeStats(d) ==
    LET acc[i \in 0..Len(d)] ==
            IF i = 0 THEN <<>>
            ELSE GroupStep(acc[i - 1], d[i].coffee_name, d[i].money)
    IN  acc[Len(d)]

coffeeChartData(d) ==
    LET stats == coffeeStats(d)
    IN  [i \in DOMAIN stats |->
            [name    |-> stats[i].key,
             count   |-> stats[i].val.count,
             revenue |-> stats[i].val.revenue]]

\* hourlyStats is only ever read by key, so it is a function of the keys it holds.
HourStep(acc, record) ==
    LET hour == record.hour
        created == IF hour \notin DOMAIN acc
                   THEN acc @@ (hour :> [orders |-> 0, revenue |-> 0])
                   ELSE acc
    IN  [created EXCEPT ![hour] = [orders  |-> @.orders + 1,
                                   revenue |-> @.revenue + record.money]]

hourlyStats(d) ==
    LET acc[i \in 0..Len(d)] ==
            IF i = 0 THEN << >> ELSE HourStep(acc[i - 1], d[i])
    IN  acc[Len(d)]

HoursPerDay == 24

\* `${hour}:00`
HourLabel(hour) == ToString(hour) \o ":00"

\* Mutant: the .filter(item => item.orders > 0) left out (a dense 24-slot view).
hourlyChartData_dense(d) ==
    LET stats == hourlyStats(d)
    IN  [i \in 1..HoursPerDay |->
            [hour    |-> HourLabel(i - 1),
             orders  |-> IF (i - 1) \in DOMAIN stats
                         THEN stats[i - 1].orders ELSE 0,
             revenue |-> IF (i - 1) \in DOMAIN stats
                         THEN stats[i - 1].revenue ELSE 0]]

hourlyChartData(d) ==
    LET stats == hourlyStats(d)
        slots == [i \in 1..HoursPerDay |->
                    [hour    |-> HourLabel(i - 1),
                     orders  |-> IF (i - 1) \in DOMAIN stats
                                 THEN stats[i - 1].orders ELSE 0,
                     revenue |-> IF (i - 1) \in DOMAIN stats
                                 THEN stats[i - 1].revenue ELSE 0]]
    IN  SelectSeq(slots, LAMBDA item : item.orders > 0)

paymentStats(d) ==
    LET acc[i \in 0..Len(d)] ==
            IF i = 0 THEN <<>>
            ELSE GroupStep(acc[i - 1], d[i].cash_type, d[i].money)
    IN  acc[Len(d)]

\* Mutant: the percentage cut to one decimal instead of rounded.
ToFixed1_truncated(count, total) == (1000 * count) \div total

\* ((count / totalOrders) * 100).toFixed(1), in tenths of a percent: the
\* nearest tenth, a half rounding up.  (The double (count/total)*100 is off
\* by less than 1e-13, so the digit is this one whenever 1000*count/total is
\* not exactly a half-integer, which needs total to be a multiple of 16.)
ToFixed1(count, total) == (2000 * count + total) \div (2 * total)

paymentChartData(d) ==
    LET stats == paymentStats(d)
    IN  [i \in DOMAIN stats |->
            [method     |-> stats[i].key,
             count      |-> stats[i].val.count,
             revenue    |-> stats[i].val.revenue,
             percentage |-> ToFixed1(stats[i].val.count, totalOrders(d))]]

\* A value held by customerFrequency: a number, or the string that
\* (inherited object) + 1 and every later + 1 produce.
Number(n) == [isNumber |-> TRUE, n |-> n]
NotANumber == [isNumber |-> FALSE, n |-> 0]

\* acc[customer] = (acc[customer] || 0) + 1
CustomerStep(acc, record) ==
    LET customer == record.card
    IN  IF HasOwn(acc, customer)
        THEN SetProperty(acc, customer,
                 IF Get(acc, customer).isNumber
                 THEN Number(Get(acc, customer).n + 1)
                 ELSE NotANumber)
        ELSE IF customer \in ObjectPrototypeKeys
        THEN \* the inherited value is truthy, + 1 makes a string; the
             \* __proto__ setter ignores a string, any other name gets an
             \* own property holding it
             IF customer = "__proto__" THEN acc
             ELSE SetProperty(acc, customer, NotANumber)
        ELSE SetProperty(acc, customer, Number(1))

customerFrequency(d) ==
    LET acc[i \in 0..Len(d)] ==
            IF i = 0 THEN <<>> ELSE CustomerStep(acc[i - 1], d[i])
    IN  acc[Len(d)]

Bucket(frequency) ==
    IF frequency.isNumber /\ frequency.n = 1 THEN "1 order"
    ELSE IF frequency.isNumber /\ frequency.n <= 3 THEN "2-3 orders"
    ELSE IF frequency.isNumber /\ frequency.n <= 5 THEN "4-5 orders"
    ELSE "6+ orders"

\* acc[bucket] = (acc[bucket] || 0) + 1 over Object.values(customerFrequency)
BucketStep(acc, entry) ==
    LET bucket == Bucket(entry.val)
    IN  SetProperty(acc, bucket,
            IF HasOwn(acc, bucket) THEN Get(acc, bucket) + 1 ELSE 1)

frequencyDistribution(d) ==
    LET values == customerFrequency(d)
        acc[i \in 0..Len(values)] ==
            IF i = 0 THEN <<>> ELSE BucketStep(acc[i - 1], values[i])
    IN  acc[Len(values)]

customerFrequencyData(d) ==
    LET dist == frequencyDistribution(d)
    IN  [i \in DOMAIN dist |-> [bucket |-> dist[i].key, customers |-> dist[i].val]]

\* Mutant: the data.length === 0 check left out.
analytics_withoutEmptyCheck(d) ==
    [kind                  |-> "result",
     totalRevenue          |-> totalRevenue(d),
     totalOrders           |-> totalOrders(d),
     uniqueCustomers       |-> uniqueCustomers(d),
     coffeeChartData       |-> coffeeChartData(d),
     hourlyChartData       |-> hourlyChartData(d),
     paymentChartData      |-> paymentChartData(d),
     customerFrequencyData |-> customerFrequencyData(d)]

analytics(d) ==
    IF Len(d) = 0
    THEN [kind |-> "null"]
    ELSE [kind                  |-> "result",
          totalRevenue          |-> totalRevenue(d),
          totalOrders           |-> totalOrders(d),
          uniqueCustomers       |-> uniqueCustomers(d),
          coffeeChartData       |-> coffeeChartData(d),
          hourlyChartData       |-> hourlyChartData(d),
          paymentChartData      |-> paymentChartData(d),
          customerFrequencyData |-> customerFrequencyData(d)]

-----------------------------------------------------------------------------
(* Key Insights: the two reduce calls of the dashboard's JSX *)

\* array.reduce(f) with no initial value throws a TypeError on an empty
\* array and otherwise folds from the first element over the rest.
TopPerformingCoffee(chart) ==
    LET top[i \in 1..Len(chart)] ==
            IF i = 1 THEN chart[1]
            ELSE LET max == top[i - 1]
                 IN  IF chart[i].revenue > max.revenue THEN chart[i] ELSE max
    IN  IF Len(chart) = 0
        THEN [threw |-> TRUE]
        ELSE [threw |-> FALSE, value |-> top[Len(chart)]]

PeakHours(chart) ==
    LET peak[i \in 1..Len(chart)] ==
            IF i = 1 THEN chart[1]
            ELSE LET max == peak[i - 1]
                 IN  IF chart[i].orders > max.orders THEN chart[i] ELSE max
    IN  IF Len(chart) = 0
        THEN [threw |-> TRUE]
        ELSE [threw |-> FALSE, value |-> peak[Len(chart)]]

\* What the component returns for the current state.
Render(d) ==
    IF Len(d) = 0 THEN "upload"
    ELSE IF analytics(d).kind = "null" THEN "nothing"
    ELSE IF TopPerformingCoffee(coffeeChartData(d)).threw
            \/ PeakHours(hourlyChartData(d)).threw THEN "TypeError"
    ELSE "dashboard"

-----------------------------------------------------------------------------
(* The component's handlers *)

\* The complete callback's map: one parsed row to one SalesRecord.
ToSalesRecord(row) ==
    [cash_type   |-> row.cash_type,
     card        |-> row.card,
     money       |-> IF row.money.read /\ row.money.n # 0
                     THEN row.money.n ELSE 0,
     coffee_name |-> row.coffee_name,
     hour        |-> row.hour]

\* .filter(record => record.coffee_name && record.money > 0)
IsValidRecord(record) == record.coffee_name # "" /\ record.money > 0

ProcessedData(rows) ==
    SelectSeq([i \in DOMAIN rows |-> ToSalesRecord(rows[i])], IsValidRecord)

Init ==
    /\ data = <<>>
    /\ loading = FALSE
    /\ error = null
    /\ parsing = idle

\* The file the user picks and Papa.parse reads: file extended by any number
\* of rows, the i-th row of a file being one of rowsAt[i].
RECURSIVE ParseFile(_, _)
ParseFile(rowsAt, file) ==
    \/ parsing' = [busy |-> TRUE, rows |-> file]
    \/ /\ Len(file) < Len(rowsAt)
       /\ \E row \in rowsAt[Len(file) + 1] :
             ParseFile(rowsAt, Append(file, row))

\* onChange of the file input, which exists on the upload screen only and is
\* disabled while loading.
handleFileUpload(rowsAt) ==
    /\ Render(data) = "upload"
    /\ ~loading
    /\ loading' = TRUE
    /\ error' = null
    /\ ParseFile(rowsAt, <<>>)
    /\ UNCHANGED data

ParseComplete ==
    /\ parsing.busy
    /\ data' = ProcessedData(parsing.rows)
    /\ loading' = FALSE
    /\ parsing' = idle
    /\ UNCHANGED error

\* The catch branch of the complete callback: something in the try block
\* threw before setData was reached.  (No operation of the try block is known
\* to throw on the rows Papa.parse delivers; the branch is admitted as an
\* outcome so that what it does is checked.)
ParseCompleteCatch ==
    /\ parsing.busy
    /\ error' = "Failed to process CSV file"
    /\ loading' = FALSE
    /\ parsing' = idle
    /\ UNCHANGED data

\* Mutant: the error callback without its setLoading(false).
ParseError_withoutSetLoading ==
    /\ parsing.busy
    /\ error' = "CSV parsing error"
    /\ parsing' = idle
    /\ UNCHANGED <<data, loading>>

ParseError ==
    /\ parsing.busy
    /\ error' = "CSV parsing error"
    /\ loading' = FALSE
    /\ parsing' = idle
    /\ UNCHANGED data

\* The "Upload New File" button of the dashboard.
UploadNewFile ==
    /\ Render(data) = "dashboard"
    /\ data' = <<>>
    /\ UNCHANGED <<loading, error, parsing>>

NextOver(rowsAt) ==
    \/ handleFileUpload(rowsAt)
    \/ ParseComplete
    \/ ParseCompleteCatch
    \/ ParseError
    \/ UploadNewFile

-----------------------------------------------------------------------------
(* Specifications: the same component over different families of files.   *)
(* Each family varies the columns one group of views reads and holds the  *)
(* others fixed, so that files long enough for the group's cases stay few. *)
(* A family is a sequence of sets of rows: the rows a file may hold at     *)
(* each position, up to the longest file.                                 *)

Row(coffee, method, customer, money, hour) ==
    [coffee_name |-> coffee, cash_type |-> method, card |-> customer,
     money |-> money, hour |-> hour]

\* The family of the files of at most n rows, each row any of rows.
RowsAtEach(rows, n) == [i \in 1..n |-> rows]

MaxRows == 2

\* Every column varies over two values.
MixedRows ==
    {Row(c, m, k, a, h) : c \in {"Latte", "7"}, m \in {"card", "cash"},
                          k \in {"ANON-1", ""}, a \in {Num(0), Num(2)},
                          h \in {8, NaN}}

Next == NextOver(RowsAtEach(MixedRows, MaxRows))

Spec == Init /\ [][Next]_vars

MaxProductRows == 3

\* Product names, two of them array indices, and amounts; "" and the amounts
\* 0 and text are dropped by the complete callback.
ProductRows ==
    {Row(c, "card", "ANON-1", a, 8) :
        c \in {"Latte", "Mocha", "7", "12"}, a \in {Num(1), Num(2)}}
    \cup {Row("", "card", "ANON-1", Num(1), 8),
          Row("Latte", "card", "ANON-1", Num(0), 8),
          Row("Latte", "card", "ANON-1", Text, 8)}

NextProducts == NextOver(RowsAtEach(ProductRows, MaxProductRows))

SpecProducts == Init /\ [][NextProducts]_vars

MaxInheritedRows == 3

\* Product names and payment methods that Object.prototype defines, beside
\* plain ones.
InheritedNameRows ==
    {Row(c, m, "ANON-1", a, 8) :
        c \in {"Latte", "constructor", "__proto__"},
        m \in {"card", "constructor"}, a \in {Num(1), Num(2)}}

NextInherited == NextOver(RowsAtEach(InheritedNameRows, MaxInheritedRows))

SpecInherited == Init /\ [][NextInherited]_vars

MaxHourRows == 4

\* Hours of the day, and datetime cells that are not dates.
HourRows ==
    {Row("Latte", "card", "ANON-1", a, h) :
        a \in {Num(1), Num(2)}, h \in {0, 8, 23, NaN}}

NextHours == NextOver(RowsAtEach(HourRows, MaxHourRows))

SpecHours == Init /\ [][NextHours]_vars

MaxPaymentRows == 7

\* Payment methods: seven plain names.  They are interchangeable, so the i-th
\* row of a file uses one of the first i of them (every file over plain names
\* is such a file up to renaming its methods).
PaymentMethods ==
    <<"card", "cash", "blik", "voucher", "transfer", "cheque", "points">>

MethodsAt(i) == {PaymentMethods[j] : j \in {j \in DOMAIN PaymentMethods : j <= i}}

PaymentRowsAt ==
    [i \in 1..MaxPaymentRows |->
        {Row("Latte", m, "ANON-1", Num(1), 8) : m \in MethodsAt(i)}]

NextPayments == NextOver(PaymentRowsAt)

SpecPayments == Init /\ [][NextPayments]_vars

MaxCustomerRows == 6

\* Card numbers: "" is what a cash sale holds.
CustomerRows ==
    {Row("Latte", "card", k, Num(1), 8) :
        k \in {"ANON-1", "ANON-2", "", "constructor", "__proto__"}}

NextCustomers == NextOver(RowsAtEach(CustomerRows, MaxCustomerRows))

SpecCustomers == Init /\ [][NextCustomers]_vars

MaxPermutedRows == 4

\* Customers with different numbers of orders and amounts that differ, so
\* that reordering a file changes the order customers are first seen in.
PermutedRows ==
    {Row("Latte", "card", "ANON-1", Num(1), 8),
     Row("Latte", "card", "ANON-1", Num(2), 8),
     Row("Latte", "card", "ANON-2", Num(1), 8),
     Row("Latte", "card", "constructor", Num(2), 8)}

NextPermuted == NextOver(RowsAtEach(PermutedRows, MaxPermutedRows))

SpecPermuted == Init /\ [][NextPermuted]_vars

MaxMoneyRows == 2

\* Money cells of every kind, and a missing product name.
MoneyRows ==
    {Row(c, "card", "ANON-1", a, 8) :
        c \in {"Latte", ""},
        a \in {Num(2), Num(0), Num(-1), Text, TextStartingWith(3)}}

NextMoney == NextOver(RowsAtEach(MoneyRows, MaxMoneyRows))

SpecMoney == Init /\ [][NextMoney]_vars

MaxLoadingRows == 3

\* Rows the complete callback keeps and rows it drops.
LoadingRows ==
    {Row(c, "card", "ANON-1", a, 8) : c \in {"Latte", ""},
                                      a \in {Num(1), Num(2), Text}}

NextLoading == NextOver(RowsAtEach(LoadingRows, MaxLoadingRows))

\* Papa.parse ends every parse it starts by invoking complete or error.
SpecLoading ==
    /\ Init
    /\ [][NextLoading]_vars
    /\ WF_vars(ParseComplete \/ ParseCompleteCatch \/ ParseError)

-----------------------------------------------------------------------------
(* Properties *)

\* Sums and counts taken directly over a sequence.
RECURSIVE SumOfRevenue(_)
SumOfRevenue(chart) ==
    IF Len(chart) = 0 THEN 0 ELSE Head(chart).revenue + SumOfRevenue(Tail(chart))

RECURSIVE SumOfCount(_)
SumOfCount(chart) ==
    IF Len(chart) = 0 THEN 0 ELSE Head(chart).count + SumOfCount(Tail(chart))

RECURSIVE SumOfOrders(_)
SumOfOrders(chart) ==
    IF Len(chart) = 0 THEN 0 ELSE Head(chart).orders + SumOfOrders(Tail(chart))

RECURSIVE SumOfPercentage(_)
SumOfPercentage(chart) ==
    IF Len(chart) = 0 THEN 0
    ELSE Head(chart).percentage + SumOfPercentage(Tail(chart))

RECURSIVE SumOfCustomers(_)
SumOfCustomers(chart) ==
    IF Len(chart) = 0 THEN 0
    ELSE Head(chart).customers + SumOfCustomers(Tail(chart))

RecordsAtHour(d, h) == SelectSeq(d, LAMBDA r : r.hour = h)

RECURSIVE SumOfMoney(_)
SumOfMoney(d) == IF Len(d) = 0 THEN 0 ELSE Head(d).money + SumOfMoney(Tail(d))

\* The distinct values of a column in the order each first occurs.
FirstSeen(column) ==
    LET kept == SelectSeq([i \in DOMAIN column |->
                              [v |-> column[i],
                               first |-> \A j \in 1..(i - 1) :
                                            column[j] # column[i]]],
                          LAMBDA e : e.first)
    IN  [i \in DOMAIN kept |-> kept[i].v]

Abs(x) == IF x < 0 THEN -x ELSE x

\* C1: revenue conservation - for a non-empty data, totalRevenue equals the
\* sum of revenue over coffeeChartData and the sum of revenue over
\* paymentChartData.
C1_RevenueConservation ==
    Len(data) > 0 =>
        /\ totalRevenue(data)
             = SumOfRevenue(coffeeChartData(data))
        /\ totalRevenue(data)
             = SumOfRevenue(paymentChartData(data))

\* C2: order conservation - for a non-empty data, totalOrders equals the sum
\* of count over coffeeChartData, over paymentChartData, and the sum of
\* orders over hourlyChartData.
C2_OrderConservation ==
    Len(data) > 0 =>
        /\ totalOrders(data) = SumOfCount(coffeeChartData(data))
        /\ totalOrders(data) = SumOfCount(paymentChartData(data))
        /\ totalOrders(data) = SumOfOrders(hourlyChartData(data))

\* C3 as stated: percentage closure - for a non-empty data the percentages
\* of paymentChartData sum to 100.0 within 0.1, whatever the number of
\* payment methods.
C3_PercentageClosure ==
    Len(data) > 0 =>
        Abs(SumOfPercentage(paymentChartData(data)) - 1000) <= 1

\* C3 as amended: each percentage is within 0.05 of 100 * count / totalOrders,
\* so the percentages of the N entries of paymentChartData sum to within
\* 0.05 * N of 100 * (the orders paymentChartData lists) / totalOrders.
C3_PercentageWithinHalfTenthEach ==
    Len(data) > 0 =>
        LET chart == paymentChartData(data)
            total == totalOrders(data)
        IN  /\ \A i \in DOMAIN chart :
                 Abs(2 * total * chart[i].percentage - 2000 * chart[i].count)
                     <= total
            /\ Abs(2 * total * SumOfPercentage(chart)
                     - 2000 * SumOfCount(chart))
                 <= Len(chart) * total

\* Six orders paid by six methods: each share is 16.7 and the sum 100.2.
C3_Witness ==
    /\ Len(data) = 6
    /\ Len(paymentChartData(data)) = 6
    /\ SumOfPercentage(paymentChartData(data)) = 1002

\* C4: customer bucket closure - for a non-empty data the customers of
\* customerFrequencyData sum to uniqueCustomers, the number of distinct card
\* values.
C4_CustomerBucketClosure ==
    Len(data) > 0 =>
        SumOfCustomers(customerFrequencyData(data))
            = uniqueCustomers(data)

C6_FirstSeenOrder ==
    Len(data) > 0 =>
        /\ [i \in DOMAIN coffeeChartData(data) |-> coffeeChartData(data)[i].name]
             = FirstSeen([i \in DOMAIN data |-> data[i].coffee_name])
        /\ [i \in DOMAIN paymentChartData(data) |-> paymentChartData(data)[i].method]
             = FirstSeen([i \in DOMAIN data |-> data[i].cash_type])

HoursOf(d) == {d[i].hour : i \in DOMAIN d}

\* C7: sparse ascending hourly view - when every record's hour is in 0..23,
\* hourlyChartData has exactly one entry per hour that has a record, in
\* strictly increasing hour order, holding that hour's count of records and
\* sum of amounts.
C7_SparseAscendingHourly ==
    (Len(data) > 0 /\ HoursOf(data) \subseteq 0..23) =>
        LET chart == hourlyChartData(data)
        IN  /\ Len(chart) = Cardinality(HoursOf(data))
            /\ \E hs \in [DOMAIN chart -> HoursOf(data)] :
                 /\ \A i \in DOMAIN chart, j \in DOMAIN chart :
                      i < j => hs[i] < hs[j]
                 /\ \A i \in DOMAIN chart :
                      /\ chart[i].hour = HourLabel(hs[i])
                      /\ chart[i].orders = Len(RecordsAtHour(data, hs[i]))
                      /\ chart[i].revenue = SumOfMoney(RecordsAtHour(data, hs[i]))

\* Three hours that first occur in decreasing order, one of them twice.
C7_Witness ==
    /\ Len(data) = 4
    /\ data[1].hour = 23 /\ data[2].hour = 8 /\ data[3].hour = 0
    /\ data[4].hour = 8
    /\ Len(hourlyChartData(data)) = 3
    /\ hourlyChartData(data)[1].hour = "0:00"
    /\ hourlyChartData(data)[2].orders = 2

OrdersOf(d, customer) == Len(SelectSeq(d, LAMBDA r : r.card = customer))

BucketOf(n) ==
    IF n = 1 THEN "1 order"
    ELSE IF n \in {2, 3} THEN "2-3 orders"
    ELSE IF n \in {4, 5} THEN "4-5 orders"
    ELSE "6+ orders"

\* C8: frequency bucketing - a customer with n orders is counted in "1 order"
\* iff n = 1, "2-3 orders" iff n is 2 or 3, "4-5 orders" iff n is 4 or 5 and
\* "6+ orders" iff n >= 6; customerFrequencyData holds only buckets with at
\* least one customer and no label twice.
C8_FrequencyBucketing ==
    Len(data) > 0 =>
        LET chart == customerFrequencyData(data)
            customers == {data[i].card : i \in DOMAIN data}
        IN  /\ \A i \in DOMAIN chart : chart[i].customers >= 1
            /\ \A i \in DOMAIN chart, j \in DOMAIN chart :
                 chart[i].bucket = chart[j].bucket => i = j
            /\ \A b \in {"1 order", "2-3 orders", "4-5 orders", "6+ orders"} :
                 LET n == Cardinality({c \in customers :
                                          BucketOf(OrdersOf(data, c)) = b})
                 IN  IF n = 0
                     THEN \A i \in DOMAIN chart : chart[i].bucket # b
                     ELSE \E i \in DOMAIN chart :
                            chart[i] = [bucket |-> b, customers |-> n]

FirstIndex(column, v) ==
    CHOOSE i \in DOMAIN column :
        column[i] = v /\ \A j \in 1..(i - 1) : column[j] # v

\* C9: top-product tie-break - the top product is an entry of coffeeChartData
\* with maximum revenue and, among the entries with that revenue, the one
\* whose name occurs first in data.
C9_TopProductTieBreak ==
    Len(data) > 0 =>
        LET chart == coffeeChartData(data)
            top == TopPerformingCoffee(chart)
            names == [i \in DOMAIN data |-> data[i].coffee_name]
        IN  /\ ~top.threw
            /\ \E i \in DOMAIN chart : chart[i] = top.value
            /\ \A i \in DOMAIN chart :
                 /\ chart[i].revenue <= top.value.revenue
                 /\ chart[i].revenue = top.value.revenue =>
                      FirstIndex(names, top.value.name)
                          <= FirstIndex(names, chart[i].name)

\* C10: peak-hour tie-break - the peak hour is an entry of hourlyChartData
\* with maximum orders and, among the hours with that many orders, the
\* earliest hour, whatever the order of the records.
C10_PeakHourTieBreak ==
    Len(data) > 0 =>
        LET chart == hourlyChartData(data)
            peak == PeakHours(chart)
            busiest == {h \in HoursOf(data) :
                          \A g \in HoursOf(data) :
                             Len(RecordsAtHour(data, g))
                               <= Len(RecordsAtHour(data, h))}
        IN  /\ ~peak.threw
            /\ \E i \in DOMAIN chart : chart[i] = peak.value
            /\ \A i \in DOMAIN chart : chart[i].orders <= peak.value.orders
            /\ \E h \in busiest :
                 /\ peak.value.hour = HourLabel(h)
                 /\ \A g \in busiest : h <= g

\* data with its records in another order.
Permuted(d, p) == [i \in DOMAIN d |-> d[p[i]]]

EntriesOf(chart) == {chart[i] : i \in DOMAIN chart}

IsWellFormedRow(row) ==
    row.money.num /\ row.money.n > 0 /\ row.coffee_name # ""

\* A step in which the complete callback stores the rows it was given.
IsCompletion == parsing.busy /\ ~parsing'.busy /\ error' = null

\* C12: no invalid record reaches the aggregates - every record held in data
\* has money > 0 and a non-empty coffee_name, and a parsed row with missing,
\* non-numeric, zero or negative money or an empty product name is dropped:
\* a completed parse stores the well-formed rows, with their amounts, and
\* nothing else.
C12_NoInvalidRecord ==
    /\ [](\A i \in DOMAIN data :
             data[i].money > 0 /\ data[i].coffee_name # "")
    /\ [][IsCompletion =>
             LET kept == SelectSeq(parsing.rows, IsWellFormedRow)
             IN  /\ Len(data') = Len(kept)
                 /\ \A i \in DOMAIN kept :
                      /\ data'[i].money = kept[i].money.n
                      /\ data'[i].coffee_name = kept[i].coffee_name]_vars

\* A step in which a parse ends: one of the callbacks has run.
IsOutcome == parsing.busy /\ ~parsing'.busy

\* C13: the loading flag always clears - loading becomes true only when a
\* file is selected for parsing; every outcome of the parse (the complete
\* callback succeeding, the complete callback throwing, the error callback)
\* sets loading to false; an outcome that sets a non-null error leaves data
\* unchanged; and, the parser invoking a callback eventually, loading is
\* eventually false after every upload.
C13_LoadingAlwaysClears ==
    /\ [][(~loading /\ loading') => (~parsing.busy /\ parsing'.busy)]_vars
    /\ [][IsOutcome => ~loading']_vars
    /\ [][(IsOutcome /\ error' # null) => data' = data]_vars
    /\ [](parsing.busy => loading)
    /\ (loading ~> ~loading)

\* After an upload the complete callback threw: the error is set, loading is
\* false again and the records are what they were.
C13_Witness ==
    /\ ~loading
    /\ ~parsing.busy
    /\ error = "Failed to process CSV file"
    /\ Len(data) = 0

=============================================================================
